---- MODULE Spec2Model ----
(***************************************************************************)
(* wilson_ci.py: Wilson score confidence intervals for binomial            *)
(* proportions.  The module models                                         *)
(*   - Python's float (IEEE 754 binary64: 53-bit significand, round to     *)
(*     nearest, ties to even) over natural numbers of any size, which are  *)
(*     sequences of 15-bit limbs because the model checker's integers have *)
(*     32 bits; the exponent is not bounded (no run of the model leaves    *)
(*     binary64's range),                                                  *)
(*   - normal_quantile, wilson_ci, parse_result, fmt_percent and the       *)
(*     formatting of the table cells as operators computed the way the     *)
(*     code computes them,                                                 *)
(*   - the control flow of normal_quantile, wilson_ci and main as three    *)
(*     state machines: SpecQ, SpecW and Spec.                              *)
(* An intermediate value that is used more than once is the parameter of   *)
(* an operator, not a LET: a parameter is evaluated once.  The arithmetic  *)
(* on limbs is written without recursion over the limbs (carries are       *)
(* looked ahead), and the digit recurrences of division, square root and   *)
(* logarithm are iterated by halving the number of steps.                  *)
(***************************************************************************)
EXTENDS Integers, Sequences, FiniteSets, TLC

\* ------------------------------------------------------------------------
\* Natural numbers of any size: little-endian sequences of limbs below
\* Base, without leading zero limbs; <<>> is zero.
\* ------------------------------------------------------------------------

LimbBits == 15

Base == 2 ^ LimbBits

Pow2(n) == 2 ^ n

Min(x, y) == IF x < y THEN x ELSE y

Max(x, y) == IF x < y THEN y ELSE x

Abs(x) == IF x < 0 THEN -x ELSE x

Sgn(x) == IF x < 0 THEN -1 ELSE IF x > 0 THEN 1 ELSE 0

\* The number of bits of a limb.
BitLen(x) ==
    IF x = 0 THEN 0
    ELSE CHOOSE n \in 1..LimbBits : Pow2(n - 1) <= x /\ x < Pow2(n)

Limb(x, i) == IF i >= 1 /\ i <= Len(x) THEN x[i] ELSE 0

Zeros(n) == [i \in 1..n |-> 0]

\* The limbs f[1], ..., f[n] as a sequence.
Limbs(f, n) == SubSeq(f, 1, n)

\* The index of the highest nonzero limb of z, or 0.
Top(z) ==
    IF \A i \in 1..Len(z) : z[i] = 0 THEN 0
    ELSE CHOOSE i \in 1..Len(z) :
             z[i] # 0 /\ \A j \in (i + 1)..Len(z) : z[j] = 0

\* z without its leading zero limbs.
BNorm(z) == SubSeq(z, 1, Top(z))

RECURSIVE BFromInt(_)
BFromInt(i) == IF i = 0 THEN <<>> ELSE <<i % Base>> \o BFromInt(i \div Base)

\* Whether x + y + cin carries into limb i: some limb below generates a
\* carry that every limb between passes on.
CarryIn(x, y, cin, i) ==
    \E j \in 0..(i - 1) :
        /\ IF j = 0 THEN cin = 1 ELSE Limb(x, j) + Limb(y, j) >= Base
        /\ \A k \in (j + 1)..(i - 1) : Limb(x, k) + Limb(y, k) = Base - 1

BAddLimbs(x, y, cin, n) ==
    BNorm(Limbs([i \in 1..n |->
                   (Limb(x, i) + Limb(y, i)
                    + (IF CarryIn(x, y, cin, i) THEN 1 ELSE 0)) % Base], n))

\* x + y + cin, for a carry cin of 0 or 1.
BAddCarry(x, y, cin) == BAddLimbs(x, y, cin, Max(Len(x), Len(y)) + 1)

BAdd(x, y) == BAddCarry(x, y, 0)

\* y * 2^r + low, for r < LimbBits and low < 2^r.
BShlAdd(y, r, low) ==
    BNorm(Limbs([i \in 1..(Len(y) + 1) |->
                   ((Limb(y, i) % Pow2(LimbBits - r)) * Pow2(r))
                   + (IF i = 1 THEN low
                      ELSE y[i - 1] \div Pow2(LimbBits - r))], Len(y) + 1))

\* 2 * x + bit.
BDouble(x, bit) == BShlAdd(x, 1, bit)

\* 4 * x + pair, for pair below 4.
BQuadruple(x, pair) == BShlAdd(x, 2, pair)

\* Whether x - y borrows from limb i.
BorrowIn(x, y, i) ==
    \E j \in 1..(i - 1) :
        /\ Limb(x, j) < Limb(y, j)
        /\ \A k \in (j + 1)..(i - 1) : Limb(x, k) = Limb(y, k)

\* x - y, for x >= y.
BSub(x, y) ==
    BNorm(Limbs([i \in 1..Len(x) |->
                   (x[i] - Limb(y, i)
                    - (IF BorrowIn(x, y, i) THEN 1 ELSE 0) + Base) % Base],
                Len(x)))

BCmpAt(x, y, i) == IF x[i] < y[i] THEN -1 ELSE 1

\* -1, 0 or 1 as x <, =, > y.
BCmp(x, y) ==
    IF Len(x) < Len(y) THEN -1
    ELSE IF Len(x) > Len(y) THEN 1
    ELSE IF x = y THEN 0
    ELSE BCmpAt(x, y, CHOOSE i \in 1..Len(x) :
                          x[i] # y[i] /\ \A j \in (i + 1)..Len(x) : x[j] = y[j])

\* What the products of limb i of x add to column k of x * y: the low
\* halves of the products of column k and the high halves of those of
\* column k - 1.
ColumnTerm(x, y, k, i) ==
    ((x[i] * Limb(y, k - i + 1)) % Base) + ((x[i] * Limb(y, k - i)) \div Base)

\* The sum of the terms of column k for the limbs lo..hi of x.
RECURSIVE ColumnSum(_, _, _, _, _)
ColumnSum(x, y, k, lo, hi) ==
    IF lo = hi THEN ColumnTerm(x, y, k, lo)
    ELSE ColumnSum(x, y, k, lo, (lo + hi) \div 2)
         + ColumnSum(x, y, k, (lo + hi) \div 2 + 1, hi)

Columns(x, y, n) ==
    Limbs([k \in 1..n |-> ColumnSum(x, y, k, 1, Len(x))], n)

\* The number whose columns are the sums s.
BMulColumns(s) ==
    BAdd(Limbs([k \in 1..Len(s) |-> s[k] % Base], Len(s)),
         <<0>> \o Limbs([k \in 1..Len(s) |-> s[k] \div Base], Len(s)))

BMul(x, y) ==
    IF Len(x) = 0 \/ Len(y) = 0 THEN <<>>
    ELSE BMulColumns(Columns(x, y, Len(x) + Len(y)))

BBitLen(x) ==
    IF Len(x) = 0 THEN 0 ELSE LimbBits * (Len(x) - 1) + BitLen(x[Len(x)])

\* x * 2^n.
BShl(x, n) ==
    IF Len(x) = 0 THEN x
    ELSE Zeros(n \div LimbBits) \o BShlAdd(x, n % LimbBits, 0)

\* y \div 2^r, for r < LimbBits.
BShrBits(y, r) ==
    BNorm(Limbs([i \in 1..Len(y) |->
                   (y[i] \div Pow2(r))
                   + ((Limb(y, i + 1) % Pow2(r)) * Pow2(LimbBits - r))], Len(y)))

\* x \div 2^n.
BShr(x, n) ==
    IF n \div LimbBits >= Len(x) THEN <<>>
    ELSE BShrBits(SubSeq(x, n \div LimbBits + 1, Len(x)), n % LimbBits)

\* Bit i of x (bit 0 is the lowest).
BBit(x, i) == (Limb(x, i \div LimbBits + 1) \div Pow2(i % LimbBits)) % 2

\* Whether the n lowest bits of x are all zero.
BLowZero(x, n) ==
    /\ \A j \in 1..(n \div LimbBits) : Limb(x, j) = 0
    /\ Limb(x, n \div LimbBits + 1) % Pow2(n % LimbBits) = 0

BOdd(x) == Limb(x, 1) % 2 = 1

\* 10^k
RECURSIVE BPow10(_)
BPow10(k) ==
    IF k <= 4 THEN <<10 ^ k>>
    ELSE BMul(BPow10(k \div 2), BPow10(k - k \div 2))

\* round(M / 2^sh), ties to even, for sh > 0 and q = M \div 2^sh.
BRoundQ(M, sh, q) ==
    IF BBit(M, sh - 1) = 1 /\ (~BLowZero(M, sh - 1) \/ BOdd(q))
    THEN BAdd(q, <<1>>)
    ELSE q

\* round(M / 2^sh), ties to even.
BRoundShr(M, sh) == IF sh = 0 THEN M ELSE BRoundQ(M, sh, BShr(M, sh))

\* ------------------------------------------------------------------------
\* Floating point.  A float is [s |-> sign, m |-> significand, e |->
\* exponent] of value s * m * 2^e, where m has exactly Prec bits, or is
\* zero: s = 0, m = <<>>, e = 0.
\* ------------------------------------------------------------------------

\* Width of the significand of a Python float (sys.float_info.mant_dig).
Prec == 53

FZero == [s |-> 0, m |-> <<>>, e |-> 0]

\* The rounded significand q1 of Prec or Prec + 1 bits as a float.
RoundCarry(sign, q1, e) ==
    IF BBitLen(q1) > Prec
    THEN [s |-> sign, m |-> BShl(<<1>>, Prec - 1), e |-> e + 1]
    ELSE [s |-> sign, m |-> q1, e |-> e]

\* M of more than Prec bits, with its sh lowest bits rounded away.
RoundQ(sign, M, e, sticky, sh, q) ==
    RoundCarry(sign,
               IF BBit(M, sh - 1) = 1
                  /\ (sticky \/ ~BLowZero(M, sh - 1) \/ BOdd(q))
               THEN BAdd(q, <<1>>)
               ELSE q,
               e + sh)

RoundL(sign, M, e, sticky, L) ==
    IF L <= Prec
    THEN [s |-> sign, m |-> BShl(M, Prec - L), e |-> e - (Prec - L)]
    ELSE RoundQ(sign, M, e, sticky, L - Prec, BShr(M, L - Prec))

\* sign * (M + a nonzero fraction below one unit iff sticky) * 2^e, rounded
\* to Prec bits, ties to even.  sticky needs BBitLen(M) > Prec.
RoundNE(sign, M, e, sticky) ==
    IF Len(M) = 0 THEN FZero ELSE RoundL(sign, M, e, sticky, BBitLen(M))

\* float(i) for an int i below 2^31.
FromInt(i) == RoundNE(Sgn(i), BFromInt(Abs(i)), 0, FALSE)

FNeg(x) == [s |-> -x.s, m |-> x.m, e |-> x.e]

FAbs(x) == [s |-> Abs(x.s), m |-> x.m, e |-> x.e]

\* -1, 0 or 1 as x <, =, > y.
FCmp(x, y) ==
    IF x.s # y.s THEN (IF x.s < y.s THEN -1 ELSE 1)
    ELSE IF x.s = 0 THEN 0
    ELSE IF x.e # y.e THEN (IF x.e < y.e THEN -x.s ELSE x.s)
    ELSE x.s * BCmp(x.m, y.m)

FLt(x, y) == FCmp(x, y) < 0

FLe(x, y) == FCmp(x, y) <= 0

\* max(x, y) and min(x, y) of Python: the first argument unless the second
\* is strictly larger (smaller).
FMax(x, y) == IF FLt(x, y) THEN y ELSE x

FMin(x, y) == IF FLt(y, x) THEN y ELSE x

\* hi + lo for H = hi.m scaled to the exponent of lo, and o the order of H
\* and lo.m.
AddAligned(hi, lo, H, o) ==
    IF hi.s # lo.s /\ o = 0 THEN FZero
    ELSE RoundNE(IF hi.s = lo.s \/ o > 0 THEN hi.s ELSE lo.s,
                 IF hi.s = lo.s THEN BAdd(H, lo.m)
                 ELSE IF o > 0 THEN BSub(H, lo.m)
                 ELSE BSub(lo.m, H),
                 lo.e, FALSE)

AddShifted(hi, lo, H) == AddAligned(hi, lo, H, BCmp(H, lo.m))

\* hi + lo for hi.e >= lo.e.  When the exponents differ by more than
\* Prec + 2, lo is below an eighth of a unit in the last place of hi.
AddOrdered(hi, lo) ==
    IF hi.e - lo.e > Prec + 2 THEN hi
    ELSE AddShifted(hi, lo, BShl(hi.m, hi.e - lo.e))

\* x + y
FAdd(x, y) ==
    IF x.s = 0 THEN y
    ELSE IF y.s = 0 THEN x
    ELSE AddOrdered(IF x.e >= y.e THEN x ELSE y, IF x.e >= y.e THEN y ELSE x)

\* x - y
FSub(x, y) == FAdd(x, FNeg(y))

\* x * y
FMul(x, y) ==
    IF x.s = 0 \/ y.s = 0 THEN FZero
    ELSE RoundNE(x.s * y.s, BMul(x.m, y.m), x.e + y.e, FALSE)

\* One more quotient bit of rem / den, for rem < 2 * den; left counts the
\* bits still to produce.
DivStep(st) ==
    IF BCmp(st.rem, st.den) >= 0
    THEN [rem |-> BDouble(BSub(st.rem, st.den), 0), den |-> st.den,
          acc |-> BDouble(st.acc, 1), left |-> st.left - 1]
    ELSE [rem |-> BDouble(st.rem, 0), den |-> st.den,
          acc |-> BDouble(st.acc, 0), left |-> st.left - 1]

\* n steps of the division, or as many as are left.
RECURSIVE DivIterate(_, _)
DivIterate(st, n) ==
    IF st.left = 0 THEN st
    ELSE IF n = 1 THEN DivStep(st)
    ELSE DivIterate(DivIterate(st, n \div 2), n - n \div 2)

\* The first Prec + 2 quotient bits of rem / den, for den <= rem < 2 * den,
\* and the remainder.
DivBits(rem, den) ==
    DivIterate([rem |-> rem, den |-> den, acc |-> <<>>, left |-> Prec + 2],
               Prec + 2)

RatioRound(sign, qr, e) == RoundNE(sign, qr.acc, e, Len(qr.rem) # 0)

RatioDivide(sign, n0, d1, e, lt) ==
    RatioRound(sign, DivBits(IF lt THEN BDouble(n0, 0) ELSE n0, d1),
               e - (IF lt THEN 1 ELSE 0) - (Prec + 1))

RatioAligned(sign, n0, d1, e) ==
    RatioDivide(sign, n0, d1, e, BCmp(n0, d1) < 0)

RatioLens(sign, num, den, e, ln, ld) ==
    RatioAligned(sign,
                 IF ld > ln THEN BShl(num, ld - ln) ELSE num,
                 IF ln > ld THEN BShl(den, ln - ld) ELSE den,
                 e + (ln - ld))

\* The float nearest to sign * (num / den) * 2^e, for num, den > 0.
BigRatio(sign, num, den, e) ==
    RatioLens(sign, num, den, e, BBitLen(num), BBitLen(den))

\* x / y, y nonzero.
FDiv(x, y) ==
    IF x.s * y.s = 0 THEN FZero
    ELSE BigRatio(x.s * y.s, x.m, y.m, x.e - y.e)

\* The float nearest to num / den for ints num >= 0, den > 0: the true
\* division k / n of two ints, and float("0.95").
RatToF(num, den) ==
    IF num = 0 THEN FZero ELSE BigRatio(1, BFromInt(num), BFromInt(den), 0)

\* The float of a decimal literal of sixteen digits:
\* sign * (hi * 10^8 + lo) / 10^k.
Dec(sign, hi, lo, k) ==
    BigRatio(sign, BAdd(BMul(BFromInt(hi), BPow10(8)), BFromInt(lo)),
             BPow10(k), 0)

\* Bit pairs appended to the radicand.
SqrtGuard == Prec \div 2 + 2

\* Bit pair j of the radicand n * 4^SqrtGuard.
PairAt(n, j) ==
    IF j >= SqrtGuard
    THEN 2 * BBit(n, 2 * (j - SqrtGuard) + 1) + BBit(n, 2 * (j - SqrtGuard))
    ELSE 0

\* One step of the digit-by-digit square root of n * 4^SqrtGuard: q is the
\* root so far, r the remainder and j the next bit pair; r1 is the
\* remainder with the pair appended and tr the trial subtrahend.
SqrtTake(st, r1, tr) ==
    IF BCmp(r1, tr) >= 0
    THEN [n |-> st.n, q |-> BDouble(st.q, 1), r |-> BSub(r1, tr),
          j |-> st.j - 1]
    ELSE [n |-> st.n, q |-> BDouble(st.q, 0), r |-> r1, j |-> st.j - 1]

SqrtStep(st) ==
    SqrtTake(st, BQuadruple(st.r, PairAt(st.n, st.j)), BQuadruple(st.q, 1))

\* k steps of the square root, or as many as there are bit pairs left.
RECURSIVE SqrtIterate(_, _)
SqrtIterate(st, k) ==
    IF st.j < 0 THEN st
    ELSE IF k = 1 THEN SqrtStep(st)
    ELSE SqrtIterate(SqrtIterate(st, k \div 2), k - k \div 2)

\* floor(sqrt(n * 4^SqrtGuard)) and the remainder, for the pairs pairs of
\* the radicand.
SqrtRem(n, pairs) ==
    SqrtIterate([n |-> n, q |-> <<>>, r |-> <<>>, j |-> pairs - 1], pairs)

SqrtRound(rr, ev) ==
    RoundNE(1, rr.q, (ev \div 2) - SqrtGuard, Len(rr.r) # 0)

SqrtOf(n, ev) ==
    SqrtRound(SqrtRem(n, (BBitLen(n) + 1) \div 2 + SqrtGuard), ev)

\* math.sqrt(x), x >= 0: correctly rounded.
FSqrt(x) ==
    IF x.s = 0 THEN FZero
    ELSE SqrtOf(IF x.e % 2 = 1 THEN BDouble(x.m, 0) ELSE x.m,
                IF x.e % 2 = 1 THEN x.e - 1 ELSE x.e)

\* Fraction bits of the fixed point the logarithm is computed in.
LogBits == Prec + 22

\* ln 2 * 2^75, rounded.
Ln2 == <<24143, 30618, 31289, 1533, 22713>>

\* One squaring of Y, for 2^LogBits <= Y < 2^(LogBits+1), which gives one
\* more fraction bit of log2; left counts the bits still to produce.
Log2Take(st, Y2) ==
    IF BBitLen(Y2) > LogBits + 1
    THEN [Y |-> BShr(Y2, 1), acc |-> BDouble(st.acc, 1), left |-> st.left - 1]
    ELSE [Y |-> Y2, acc |-> BDouble(st.acc, 0), left |-> st.left - 1]

Log2Step(st) == Log2Take(st, BShr(BMul(st.Y, st.Y), LogBits))

\* k squarings, or as many as are left.
RECURSIVE Log2Iterate(_, _)
Log2Iterate(st, k) ==
    IF st.left = 0 THEN st
    ELSE IF k = 1 THEN Log2Step(st)
    ELSE Log2Iterate(Log2Iterate(st, k \div 2), k - k \div 2)

\* The LogBits fraction bits of log2(Y / 2^LogBits).
Log2Frac(Y) ==
    Log2Iterate([Y |-> Y, acc |-> <<>>, left |-> LogBits], LogBits).acc

\* (E + fr / 2^LogBits) * ln 2, for the whole part E of log2 as an int and
\* as the fixed point EF.
LogFixed(E, EF, fr) ==
    RoundNE(IF E >= 0 THEN 1 ELSE -1,
            BMul(IF E >= 0 THEN BAdd(EF, fr) ELSE BSub(EF, fr), Ln2),
            -(LogBits + 75), TRUE)

LogOf(E, fr) == LogFixed(E, BShl(BFromInt(Abs(E)), LogBits), fr)

\* math.log(x), x > 0: ln x = log2(x) * ln 2 in fixed point, rounded to a
\* float.
FLog(x) ==
    LogOf(x.e + Prec - 1, Log2Frac(BShl(x.m, LogBits - (Prec - 1))))

FOne == FromInt(1)

FHalf == RatToF(1, 2)

\* ------------------------------------------------------------------------
\* normal_quantile
\* ------------------------------------------------------------------------

\* Coefficients in rational approximations (indices are Python's plus one).
a == << Dec(-1, 39696830, 28665376, 14),
        Dec( 1, 22094609, 84245205, 13),
        Dec(-1, 27592851,  4469687, 13),
        Dec( 1, 13835775, 18672690, 13),
        Dec(-1, 30664798,  6614716, 14),
        Dec( 1, 25066282, 77459239, 15) >>

b == << Dec(-1, 54476098, 79822406, 14),
        Dec( 1, 16158583, 68580409, 13),
        Dec(-1, 15569897, 98598866, 13),
        Dec( 1, 66801311, 88771972, 14),
        Dec(-1, 13280681, 55288572, 14) >>

c == << Dec(-1, 77848940,  2430293, 18),
        Dec(-1, 32239645, 80411365, 16),
        Dec(-1, 24007582, 77161838, 15),
        Dec(-1, 25497325, 39343734, 15),
        Dec( 1, 43746641, 41464968, 15),
        Dec( 1, 29381639, 82698783, 15) >>

d == << Dec( 1, 77846957,  9041462, 18),
        Dec( 1, 32246712, 90700398, 16),
        Dec( 1, 24451341, 37142996, 15),
        Dec( 1, 37544086, 61907416, 15) >>

\* Break-points.
plow == RatToF(2425, 100000)

phigh == FSub(FOne, plow)

\* acc * x + cs[i], for the next coefficient cs[i].
HornerStep(cs, st) ==
    [acc |-> FAdd(FMul(st.acc, st.x), cs[st.i]), x |-> st.x, i |-> st.i + 1]

\* k coefficients more, or as many as are left.
RECURSIVE HornerIterate(_, _, _)
HornerIterate(cs, st, k) ==
    IF st.i > Len(cs) THEN st
    ELSE IF k = 1 THEN HornerStep(cs, st)
    ELSE HornerIterate(cs, HornerIterate(cs, st, k \div 2), k - k \div 2)

\* ((cs[1] * x + cs[2]) * x + ...) * x + cs[Len(cs)]
Horner(cs, x) ==
    HornerIterate(cs, [acc |-> cs[1], x |-> x, i |-> 2], Len(cs)).acc

\* The outcome of a call: err = "" and a value, or the exception raised.
Returned(regime, val) == [err |-> "", regime |-> regime, val |-> val]

Raised(err) == [err |-> err, regime |-> "none", val |-> FZero]

\* num / den as Python evaluates it.
Quotient(regime, num, den) ==
    IF den.s = 0 THEN Raised("ZeroDivisionError: float division by zero")
    ELSE Returned(regime, FDiv(num, den))

\* InUnitInterval without its upper bound.
InUnitIntervalNoUpper(p) == FLt(FZero, p)

\* 0.0 < p < 1.0
InUnitInterval(p) == FLt(FZero, p) /\ FLt(p, FOne)

\* q = math.sqrt(-2 * math.log(x))
TailQ(x) == FSqrt(FMul(FromInt(-2), FLog(x)))

\* (((((c[0]*q + c[1])*q + ...)*q + c[5]) / ((((d[0]*q + ...)*q + d[3])*q + 1)
LowerRatio(q) == Quotient("lower", Horner(c, q), Horner(d \o <<FOne>>, q))

\* The lower tail: math.log(p) needs p > 0.
LowerTail(p) ==
    IF p.s <= 0 THEN Raised("ValueError: math domain error")
    ELSE LowerRatio(TailQ(p))

\* UpperRatio without the negation of the numerator.
UpperRatioNotNegated(q) ==
    Quotient("upper", Horner(c, q), Horner(d \o <<FOne>>, q))

\* -(((((c[0]*q + c[1])*q + ...)*q + c[5]) / ((((d[0]*q + ...)*q + d[3])*q + 1)
UpperRatio(q) ==
    Quotient("upper", FNeg(Horner(c, q)), Horner(d \o <<FOne>>, q))

\* The upper tail: math.log(1 - p) needs 1 - p > 0.
UpperOf(mp) ==
    IF mp.s <= 0 THEN Raised("ValueError: math domain error")
    ELSE UpperRatio(TailQ(mp))

UpperTail(p) == UpperOf(FSub(FOne, p))

\* (((((a[0]*r + ...)*r + a[5]) * q / (((((b[0]*r + ...)*r + b[4])*r + 1)
CentralRatio(q, r) ==
    Quotient("central", FMul(Horner(a, r), q), Horner(b \o <<FOne>>, r))

CentralOf(q) == CentralRatio(q, FMul(q, q))

\* The central region: q = p - 0.5, r = q * q.
Central(p) == CentralOf(FSub(p, FHalf))

\* Regime with the break-points counted to the tails.
RegimeClosed(p) ==
    IF FLe(p, plow) THEN "lower"
    ELSE IF FLe(phigh, p) THEN "upper"
    ELSE "central"

\* The regime of the approximation that p selects.
Regime(p) ==
    IF FLt(p, plow) THEN "lower"
    ELSE IF FLt(phigh, p) THEN "upper"
    ELSE "central"

normal_quantile(p) ==
    IF ~InUnitInterval(p) THEN Raised("ValueError: p must be in (0, 1)")
    ELSE IF Regime(p) = "lower" THEN LowerTail(p)
    ELSE IF Regime(p) = "upper" THEN UpperTail(p)
    ELSE Central(p)

\* ------------------------------------------------------------------------
\* wilson_ci
\* ------------------------------------------------------------------------

\* The outcome of a call of wilson_ci: err = "" and the pair (low, high),
\* or the exception raised.
WReturned(low, high) == [err |-> "", low |-> low, high |-> high]

WRaised(err) == [err |-> err, low |-> FZero, high |-> FZero]

BadN(n) == n <= 0

\* BadK without its lower bound.
BadKUpperOnly(k, n) == k > n

BadK(k, n) == ~(0 <= k /\ k <= n)

BadConf(conf) == ~InUnitInterval(conf)

\* The first precondition that fails, in the order of the checks; "" if
\* none does.
Precondition(k, n, conf) ==
    IF BadN(n) THEN "ValueError: n must be > 0"
    ELSE IF BadK(k, n) THEN "ValueError: k must be between 0 and n"
    ELSE IF BadConf(conf) THEN "ValueError: conf must be in (0,1)"
    ELSE ""

\* alpha = 1.0 - conf; the argument 1.0 - alpha / 2.0 of normal_quantile.
QuantileArg(conf) == FSub(FOne, FDiv(FSub(FOne, conf), FromInt(2)))

\* center - half_width, clamped below at 0.0.
LowOf(center, half_width) == FMax(FZero, FSub(center, half_width))

\* HighOf without the clamp.
HighOfUnclamped(center, half_width) == FAdd(center, half_width)

\* center + half_width, clamped above at 1.0.
HighOf(center, half_width) == FMin(FOne, FAdd(center, half_width))

\* return (low, high)
Bounds(center, half_width) ==
    WReturned(LowOf(center, half_width), HighOf(center, half_width))

\* half_width = (z * math.sqrt(rad)) / denom, rad the argument of the root.
HalfWidth(center, denom, z, rad) ==
    IF rad.s < 0 THEN WRaised("ValueError: math domain error")
    ELSE Bounds(center, FDiv(FMul(z, FSqrt(rad)), denom))

\* center = (phat + z2 / (2 * n)) / denom
\* rad = (phat * (1 - phat) + z2 / (4 * n)) / n
Center(phat, nf, z, z2, denom) ==
    IF denom.s = 0 THEN WRaised("ZeroDivisionError: float division by zero")
    ELSE HalfWidth(FDiv(FAdd(phat, FDiv(z2, FMul(FromInt(2), nf))), denom),
                   denom, z,
                   FDiv(FAdd(FMul(phat, FSub(FOne, phat)),
                             FDiv(z2, FMul(FromInt(4), nf))), nf))

\* denom = 1.0 + z2 / n
Denom(phat, nf, z, z2) == Center(phat, nf, z, z2, FAdd(FOne, FDiv(z2, nf)))

\* The interval for the critical value z: phat = k / n, z2 = z * z.
Interval(k, n, z) == Denom(RatToF(k, n), FromInt(n), z, FMul(z, z))

\* The interval for the outcome zr of normal_quantile.
IntervalFor(k, n, zr) ==
    IF zr.err # "" THEN WRaised(zr.err) ELSE Interval(k, n, zr.val)

wilson_ci(k, n, conf) ==
    IF Precondition(k, n, conf) # "" THEN WRaised(Precondition(k, n, conf))
    ELSE IntervalFor(k, n, normal_quantile(QuantileArg(conf)))

\* ------------------------------------------------------------------------
\* Formatting
\* ------------------------------------------------------------------------

\* x = s * m * 2^e for M = m * 10^digits, rounded to an integer.
Scaled(x, M) ==
    [err |-> "", s |-> x.s,
     n |-> IF x.e >= 0 THEN BShl(M, x.e) ELSE BRoundShr(M, -x.e)]

\* f"{x:.{digits}f}": the decimal nearest to x with digits digits after the
\* point, ties to even, as [s |-> sign, n |-> the digits read as a natural
\* number]: the text is n written with the point digits places from the
\* right.  A negative precision is a ValueError.
Format(x, digits) ==
    IF digits < 0
    THEN [err |-> "ValueError: Format specifier missing precision",
          s |-> 0, n |-> <<>>]
    ELSE Scaled(x, BMul(x.m, BPow10(digits)))

fmt_percent(x, digits) == Format(FMul(x, FromInt(100)), digits)

\* The sign of the number a formatted text reads as.
FormatSign(u) == IF Len(u.n) = 0 THEN 0 ELSE u.s

\* Order of two formatted numbers of the same precision: -1, 0 or 1.
FormatCmp(u, v) ==
    IF FormatSign(u) # FormatSign(v)
    THEN (IF FormatSign(u) < FormatSign(v) THEN -1 ELSE 1)
    ELSE FormatSign(u) * BCmp(u.n, v.n)

\* ------------------------------------------------------------------------
\* parse_result.  A str is the sequence of its characters.
\* ------------------------------------------------------------------------

Digits == {"0", "1", "2", "3", "4", "5", "6", "7", "8", "9"}

DigitVal(ch) ==
    CASE ch = "0" -> 0 [] ch = "1" -> 1 [] ch = "2" -> 2 [] ch = "3" -> 3
      [] ch = "4" -> 4 [] ch = "5" -> 5 [] ch = "6" -> 6 [] ch = "7" -> 7
      [] ch = "8" -> 8 [] ch = "9" -> 9

DigitChar(i) == <<"0", "1", "2", "3", "4", "5", "6", "7", "8", "9">>[i + 1]

\* Characters \s matches and str.strip() strips.
Space == {" "}

RECURSIVE LStrip(_)
LStrip(str) ==
    IF Len(str) > 0 /\ str[1] \in Space THEN LStrip(Tail(str)) ELSE str

RECURSIVE RStrip(_)
RStrip(str) ==
    IF Len(str) > 0 /\ str[Len(str)] \in Space
    THEN RStrip(SubSeq(str, 1, Len(str) - 1))
    ELSE str

\* str.strip()
Strip(str) == RStrip(LStrip(str))

\* The index of the first ch in str; 0 if there is none.
RECURSIVE Find(_, _, _)
Find(str, ch, i) ==
    IF i > Len(str) THEN 0
    ELSE IF str[i] = ch THEN i
    ELSE Find(str, ch, i + 1)

\* The length of the longest prefix of str made of characters of set.
RECURSIVE Span(_, _, _)
Span(str, set, i) ==
    IF i <= Len(str) /\ str[i] \in set THEN Span(str, set, i + 1) ELSE i - 1

\* int(str) for a str of digits.
RECURSIVE ToInt(_, _)
ToInt(str, acc) ==
    IF Len(str) = 0 THEN acc
    ELSE ToInt(Tail(str), 10 * acc + DigitVal(str[1]))

\* str(i) for an int i >= 0.
RECURSIVE ToStr(_)
ToStr(i) ==
    IF i < 10 THEN <<DigitChar(i)>>
    ELSE Append(ToStr(i \div 10), DigitChar(i % 10))

NoMatch == [ok |-> FALSE, g1 |-> <<>>, g2 |-> <<>>]

\* (\d+) at the end: g2 is all of the rest.
MatchDenominator(g1, g2) ==
    IF Len(g2) > 0 /\ Span(g2, Digits, 1) = Len(g2)
    THEN [ok |-> TRUE, g1 |-> g1, g2 |-> g2]
    ELSE NoMatch

\* / after the spaces that follow the first group.
MatchSlash(g1, rest) ==
    IF Len(rest) > 0 /\ rest[1] = "/"
    THEN MatchDenominator(g1, LStrip(Tail(rest)))
    ELSE NoMatch

\* (\d+) at the start: the n1 leading digits.
MatchNumerator(frac, n1) ==
    IF n1 = 0 THEN NoMatch
    ELSE MatchSlash(SubSeq(frac, 1, n1), LStrip(SubSeq(frac, n1 + 1, Len(frac))))

\* re.fullmatch(r"(\d+)\s*/\s*(\d+)", frac): the two groups, or no match.
FullMatch(frac) == MatchNumerator(frac, Span(frac, Digits, 1))

\* The outcome of parse_result: err = "" and a Result, or the ValueError.
PReturned(label, k, n) == [err |-> "", label |-> label, k |-> k, n |-> n]

PRaised(msg) == [err |-> msg, label |-> <<>>, k |-> 0, n |-> 0]

\* ResultOf without the check of k against n.
ResultOfUnchecked(label, k, n) ==
    IF n <= 0 THEN PRaised("ValueError: n must be > 0")
    ELSE PReturned(IF Len(label) = 0 THEN ToStr(k) \o <<"/">> \o ToStr(n)
                   ELSE label, k, n)

\* The Result of a matched fraction.
ResultOf(label, k, n) ==
    IF n <= 0 THEN PRaised("ValueError: n must be > 0")
    ELSE IF k < 0 \/ k > n THEN PRaised("ValueError: k must be in [0,n]")
    ELSE PReturned(IF Len(label) = 0 THEN ToStr(k) \o <<"/">> \o ToStr(n)
                   ELSE label, k, n)

\* m = re.fullmatch(...); if not m: raise ValueError
Matched(label, mt) ==
    IF ~mt.ok THEN PRaised("ValueError: Bad fraction")
    ELSE ResultOf(label, ToInt(mt.g1, 0), ToInt(mt.g2, 0))

\* label, frac = s.split("=", 1), both stripped, for the index eq of the
\* first "=" in s.
SplitAt(st, eq) ==
    IF eq = 0 THEN PRaised("ValueError: Missing '='")
    ELSE Matched(Strip(SubSeq(st, 1, eq - 1)),
                 FullMatch(Strip(SubSeq(st, eq + 1, Len(st)))))

Stripped(st) == SplitAt(st, Find(st, "=", 1))

parse_result(str) == Stripped(Strip(str))

\* ------------------------------------------------------------------------
\* State.  Three machines share the module: a call of normal_quantile (q_),
\* a call of wilson_ci (w_) and a run of main (the plain names).
\* ------------------------------------------------------------------------

VARIABLES q_p, q_pc, q_out,
          w_k, w_n, w_conf, w_pc, w_z, w_out, w_qcalls,
          argv, pc, idx, parsed, header, rows, stdout, stderr, exit_status,
          wcalls

q_vars == <<q_p, q_pc, q_out>>

w_vars == <<w_k, w_n, w_conf, w_pc, w_z, w_out, w_qcalls>>

m_vars == <<argv, pc, idx, parsed, header, rows, stdout, stderr,
            exit_status, wcalls>>

vars == <<q_vars, w_vars, m_vars>>

\* The machines that are not running.
QIdle ==
    /\ q_p = FZero
    /\ q_pc = "idle"
    /\ q_out = Raised("")

WIdle ==
    /\ w_k = 0
    /\ w_n = 0
    /\ w_conf = FZero
    /\ w_pc = "idle"
    /\ w_z = FZero
    /\ w_out = WRaised("")
    /\ w_qcalls = 0

MIdle ==
    /\ argv = <<>>
    /\ pc = "idle"
    /\ idx = 0
    /\ parsed = <<>>
    /\ header = <<>>
    /\ rows = <<>>
    /\ stdout = <<>>
    /\ stderr = <<>>
    /\ exit_status = -1
    /\ wcalls = <<>>

\* ------------------------------------------------------------------------
\* A call of normal_quantile, one step per statement group.
\* ------------------------------------------------------------------------

\* x * 2^-i
Scale(x, i) == IF x.s = 0 THEN x ELSE [x EXCEPT !.e = @ - i]

\* The floats next to a positive float x.
FSucc(x) == RoundNE(x.s, BAdd(x.m, <<1>>), x.e, FALSE)

FPred(x) == RoundNE(x.s, BSub(BDouble(x.m, 0), <<1>>), x.e - 1, FALSE)

\* The arguments of the calls examined: a grid over [0, 1], the powers
\* 2^-i and their complements, the break-points and their neighbours, two
\* small decimals, and arguments outside the unit interval.
QGrid == 40

MaxTiny == 55

Probabilities ==
    {RatToF(j, QGrid) : j \in 0..QGrid}
    \cup {Scale(FOne, i) : i \in 1..MaxTiny}
    \cup {FSub(FOne, Scale(FOne, i)) : i \in 1..MaxTiny}
    \cup {plow, FPred(plow), FSucc(plow), phigh, FPred(phigh), FSucc(phigh),
          FSub(FOne, phigh), FSub(FOne, plow)}
    \cup {Dec(1, 0, 1, 15), Dec(1, 0, 1, 17)}
    \cup {FromInt(-1), FNeg(FHalf), FSucc(FOne), FromInt(2)}

QInit ==
    /\ q_p \in Probabilities
    /\ q_pc = "check"
    /\ q_out = Raised("")
    /\ WIdle
    /\ MIdle

QFinish(out) ==
    /\ q_out' = out
    /\ q_pc' = IF out.err = "" THEN "returned" ELSE "raised"
    /\ UNCHANGED <<q_p, w_vars, m_vars>>

\* if not (0.0 < p < 1.0): raise ValueError
QCheck ==
    /\ q_pc = "check"
    /\ IF InUnitInterval(q_p)
       THEN /\ q_pc' = "branch"
            /\ UNCHANGED <<q_p, q_out, w_vars, m_vars>>
       ELSE QFinish(Raised("ValueError: p must be in (0, 1)"))

\* if p < plow: ...
QLower ==
    /\ q_pc = "branch"
    /\ Regime(q_p) = "lower"
    /\ QFinish(LowerTail(q_p))

\* if p > phigh: ...
QUpper ==
    /\ q_pc = "branch"
    /\ Regime(q_p) = "upper"
    /\ QFinish(UpperTail(q_p))

\* the central region
QCentral ==
    /\ q_pc = "branch"
    /\ Regime(q_p) = "central"
    /\ QFinish(Central(q_p))

QNext == QCheck \/ QLower \/ QUpper \/ QCentral

SpecQ == QInit /\ [][QNext]_vars


\* ------------------------------------------------------------------------
\* A call of wilson_ci, one step per statement group.
\* ------------------------------------------------------------------------

\* The largest number of trials of the calls examined.
MaxN == 5

\* The confidence levels of the calls examined: 0.5, 0.8, 0.95, 0.99, the
\* float next below 1.0, and levels outside the unit interval.
Confidences ==
    {RatToF(50, 100), RatToF(80, 100), RatToF(95, 100), RatToF(99, 100),
     FPred(FOne)}
    \cup {FZero, FOne, FNeg(FHalf), FSucc(FOne)}

WInit ==
    /\ w_k \in -1..(MaxN + 1)
    /\ w_n \in -1..MaxN
    /\ w_conf \in Confidences
    /\ w_pc = "check_n"
    /\ w_z = FZero
    /\ w_out = WRaised("")
    /\ w_qcalls = 0
    /\ QIdle
    /\ MIdle

WFinish(out) ==
    /\ w_out' = out
    /\ w_pc' = IF out.err = "" THEN "returned" ELSE "raised"
    /\ UNCHANGED <<w_k, w_n, w_conf, q_vars, m_vars>>

WStep(next) ==
    /\ w_pc' = next
    /\ UNCHANGED <<w_k, w_n, w_conf, w_z, w_out, w_qcalls, q_vars, m_vars>>

\* if n <= 0: raise ValueError
WCheckN ==
    /\ w_pc = "check_n"
    /\ IF BadN(w_n)
       THEN WFinish(WRaised("ValueError: n must be > 0"))
            /\ UNCHANGED <<w_z, w_qcalls>>
       ELSE WStep("check_k")

\* if not (0 <= k <= n): raise ValueError
WCheckK ==
    /\ w_pc = "check_k"
    /\ IF BadK(w_k, w_n)
       THEN WFinish(WRaised("ValueError: k must be between 0 and n"))
            /\ UNCHANGED <<w_z, w_qcalls>>
       ELSE WStep("check_conf")

\* if not (0.0 < conf < 1.0): raise ValueError
WCheckConf ==
    /\ w_pc = "check_conf"
    /\ IF BadConf(w_conf)
       THEN WFinish(WRaised("ValueError: conf must be in (0,1)"))
            /\ UNCHANGED <<w_z, w_qcalls>>
       ELSE WStep("quantile")

\* z is bound to the value normal_quantile returned; what it raised is
\* not caught.
WBind(zr) ==
    IF zr.err # ""
    THEN WFinish(WRaised(zr.err)) /\ UNCHANGED w_z
    ELSE /\ w_z' = zr.val
         /\ w_pc' = "interval"
         /\ UNCHANGED <<w_k, w_n, w_conf, w_out, q_vars, m_vars>>

\* z = normal_quantile(1.0 - alpha / 2.0)
WQuantile ==
    /\ w_pc = "quantile"
    /\ w_qcalls' = w_qcalls + 1
    /\ WBind(normal_quantile(QuantileArg(w_conf)))

\* phat ... return (low, high)
WInterval ==
    /\ w_pc = "interval"
    /\ WFinish(Interval(w_k, w_n, w_z))
    /\ UNCHANGED <<w_z, w_qcalls>>

WNext == WCheckN \/ WCheckK \/ WCheckConf \/ WQuantile \/ WInterval

SpecW == WInit /\ [][WNext]_vars


\* ------------------------------------------------------------------------
\* A run of main.  A line of output is a record of its cells; the padding
\* of the cells to the column widths is left out.
\* ------------------------------------------------------------------------

\* The items of the runs examined, with the successes and trials each
\* well-formed item stands for.
WellFormed ==
    {[text |-> <<"a", "=", "1", "/", "1">>, k |-> 1, n |-> 1],
     [text |-> <<"=", "0", "/", "5">>, k |-> 0, n |-> 5],
     [text |-> <<" ", "b", " ", "=", " ", "2", " ", "/", " ", "4">>, k |-> 2, n |-> 4]}

GoodItems == {wf.text : wf \in WellFormed}

\* No "=", no fraction, no trial, more successes than trials.
BadItems ==
    {<<"b", "a", "d">>,
     <<"c", "=", "1", "/", "x">>,
     <<"d", "=", "1", "/", "0">>,
     <<"e", "=", "3", "/", "2">>}

\* The largest number of items of a run.
MaxItems == 2

ItemLists ==
    UNION {[1..len -> GoodItems \cup BadItems] : len \in 0..MaxItems}

\* The values of --conf and --digits of the runs examined.
Levels == {RatToF(80, 100), RatToF(95, 100), FOne}

Precisions == {-1, 2, 17}

\* int(big) for a natural number below 2^31.
RECURSIVE BToInt(_)
BToInt(x) == IF Len(x) = 0 THEN 0 ELSE x[1] + Base * BToInt(Tail(x))

\* int(x): x truncated towards zero.
FloatToInt(x) ==
    IF x.s = 0 THEN 0
    ELSE x.s * BToInt(IF x.e >= 0 THEN BShl(x.m, x.e) ELSE BShr(x.m, -x.e))

\* ConflictingFlags that never finds a conflict.
ConflictingFlagsIgnored(args) == FALSE

\* args.as_percent and args.as_prop
ConflictingFlags(args) == args.as_percent /\ args.as_prop

HeaderLine(args) ==
    [kind |-> "header",
     unit |-> IF args.as_prop THEN "p_hat" ELSE "%",
     level |-> FloatToInt(FMul(args.conf, FromInt(100)))]

SeparatorLine == [kind |-> "separator"]

RowLine(r, p_str, low_str, high_str, args) ==
    [kind |-> "row", label |-> r.label, k |-> ToStr(r.k), n |-> ToStr(r.n),
     p |-> p_str, low |-> low_str, high |-> high_str,
     percent |-> ~args.as_prop]

\* A number of a row as the text of its cell, in the unit of the table.
Cell(x, args) ==
    IF args.as_prop THEN Format(x, args.digits)
    ELSE fmt_percent(x, args.digits)

\* The outcome of the body of the loop over parsed: the exception raised,
\* or the row appended.
RowOfCells(r, p_str, low_str, high_str, args) ==
    IF p_str.err # "" THEN [err |-> p_str.err, row |-> SeparatorLine]
    ELSE [err |-> "", row |-> RowLine(r, p_str, low_str, high_str, args)]

RowOfInterval(r, ci, args) ==
    IF ci.err # "" THEN [err |-> ci.err, row |-> SeparatorLine]
    ELSE RowOfCells(r, Cell(RatToF(r.k, r.n), args), Cell(ci.low, args),
                    Cell(ci.high, args), args)

RowOf(r, args) == RowOfInterval(r, wilson_ci(r.k, r.n, args.conf), args)

\* The row at position i, counted from the last row.
RowAtReversed(rs, i) == rs[Len(rs) + 1 - i]

\* The row at position i of rows.
RowAt(rs, i) == rs[i]

MInit ==
    /\ argv \in [results : ItemLists, conf : Levels, digits : Precisions,
                 as_percent : BOOLEAN, as_prop : BOOLEAN]
    /\ pc = "parse_args"
    /\ idx = 0
    /\ parsed = <<>>
    /\ header = <<>>
    /\ rows = <<>>
    /\ stdout = <<>>
    /\ stderr = <<>>
    /\ exit_status = -1
    /\ wcalls = <<>>
    /\ QIdle
    /\ WIdle

\* The process ends with the status and one more message on stderr.
Exit(status, msg) ==
    /\ pc' = "exited"
    /\ exit_status' = status
    /\ stderr' = Append(stderr, msg)

\* An exception nobody catches: the traceback on stderr, status 1.
Uncaught(err) == Exit(1, err)

\* args = ap.parse_args(argv): at least one item is required.
ParseArgs ==
    /\ pc = "parse_args"
    /\ IF Len(argv.results) = 0
       THEN Exit(2, "error: the following arguments are required: results")
       ELSE /\ pc' = "check_flags"
            /\ UNCHANGED <<stderr, exit_status>>
    /\ UNCHANGED <<argv, idx, parsed, header, rows, stdout, wcalls,
                   q_vars, w_vars>>

\* if args.as_percent and args.as_prop: ... return 2
CheckFlags ==
    /\ pc = "check_flags"
    /\ IF ConflictingFlags(argv)
       THEN /\ Exit(2, "Error: Choose only one of --as-percent or --as-prop.")
            /\ UNCHANGED idx
       ELSE /\ pc' = "parse"
            /\ idx' = 1
            /\ UNCHANGED <<stderr, exit_status>>
    /\ UNCHANGED <<argv, parsed, header, rows, stdout, wcalls, q_vars, w_vars>>

\* parsed.append(r) for the Result r that parse_result returned; what it
\* raised is not caught.
AppendParsed(r) ==
    IF r.err # ""
    THEN Uncaught(r.err) /\ UNCHANGED <<idx, parsed>>
    ELSE /\ parsed' = Append(parsed, r)
         /\ idx' = idx + 1
         /\ pc' = IF idx = Len(argv.results) THEN "header" ELSE "parse"
         /\ UNCHANGED <<stderr, exit_status>>

\* for s in args.results: parsed.append(parse_result(s))
ParseItem ==
    /\ pc = "parse"
    /\ AppendParsed(parse_result(argv.results[idx]))
    /\ UNCHANGED <<argv, header, rows, stdout, wcalls, q_vars, w_vars>>

\* header = [...]
Header ==
    /\ pc = "header"
    /\ header' = HeaderLine(argv)
    /\ pc' = "rows"
    /\ idx' = 1
    /\ UNCHANGED <<argv, parsed, rows, stdout, stderr, exit_status, wcalls,
                   q_vars, w_vars>>

\* rows.append(...) for the outcome out of the loop body; what it raised
\* is not caught.
AppendRow(out) ==
    IF out.err # ""
    THEN Uncaught(out.err) /\ UNCHANGED <<idx, rows>>
    ELSE /\ rows' = Append(rows, out.row)
         /\ idx' = idx + 1
         /\ pc' = IF idx = Len(parsed) THEN "print_header" ELSE "rows"
         /\ UNCHANGED <<stderr, exit_status>>

\* for r in parsed: low, high = wilson_ci(r.k, r.n, conf=args.conf) ...
\* rows.append([...])
ComputeRow ==
    /\ pc = "rows"
    /\ wcalls' = Append(wcalls, <<parsed[idx].k, parsed[idx].n, argv.conf>>)
    /\ AppendRow(RowOf(parsed[idx], argv))
    /\ UNCHANGED <<argv, parsed, header, stdout, q_vars, w_vars>>

\* print_row(header)
PrintHeader ==
    /\ pc = "print_header"
    /\ stdout' = Append(stdout, header)
    /\ pc' = "print_separator"
    /\ UNCHANGED <<argv, idx, parsed, header, rows, stderr, exit_status,
                   wcalls, q_vars, w_vars>>

\* print_row(["-" * w for w in col_widths])
PrintSeparator ==
    /\ pc = "print_separator"
    /\ stdout' = Append(stdout, SeparatorLine)
    /\ pc' = "print_rows"
    /\ idx' = 1
    /\ UNCHANGED <<argv, parsed, header, rows, stderr, exit_status, wcalls,
                   q_vars, w_vars>>

\* for row in rows: print_row(row)
PrintRow ==
    /\ pc = "print_rows"
    /\ stdout' = Append(stdout, RowAt(rows, idx))
    /\ idx' = idx + 1
    /\ pc' = IF idx = Len(rows) THEN "return" ELSE "print_rows"
    /\ UNCHANGED <<argv, parsed, header, rows, stderr, exit_status, wcalls,
                   q_vars, w_vars>>

\* return 0; raise SystemExit(main(sys.argv[1:]))
Return ==
    /\ pc = "return"
    /\ pc' = "exited"
    /\ exit_status' = 0
    /\ UNCHANGED <<argv, idx, parsed, header, rows, stdout, stderr, wcalls,
                   q_vars, w_vars>>

Next ==
    \/ ParseArgs
    \/ CheckFlags
    \/ ParseItem
    \/ Header
    \/ ComputeRow
    \/ PrintHeader
    \/ PrintSeparator
    \/ PrintRow
    \/ Return

Spec == MInit /\ [][Next]_vars

\* ------------------------------------------------------------------------
\* Properties of normal_quantile
\* ------------------------------------------------------------------------

\* The call of normal_quantile is over.
QDone == q_pc \in {"returned", "raised"}

\* p lies strictly between 0 and 1.
QValid == q_p.s = 1 /\ FLt(q_p, FOne)

\* C7: normal_quantile(p) fails with the domain error exactly when p <= 0
\* or p >= 1, before any regime is selected, and returns a value for every
\* p strictly between 0 and 1.
C7_DomainCheck ==
    /\ q_pc = "branch" => QValid
    /\ QDone => (q_pc = "raised" <=> ~QValid)
    /\ q_pc = "raised" =>
          /\ q_out.err = "ValueError: p must be in (0, 1)"
          /\ q_out.regime = "none"
    /\ q_pc = "returned" => q_out.err = ""

\* p = 1.0 has been rejected.
C7_Witness == q_pc = "raised" /\ q_p = FOne

\* C9: exactly one regime evaluates a valid p: the lower tail when
\* p < 0.02425, the upper tail when p > 1 - 0.02425, the central region
\* otherwise; the break-points themselves are central.
C9_Regimes ==
    QDone /\ QValid =>
        /\ q_out.regime \in {"lower", "central", "upper"}
        /\ q_out.regime = "lower" <=> FLt(q_p, plow)
        /\ q_out.regime = "upper" <=> FLt(phigh, q_p)
        /\ q_out.regime = "central" <=> (FLe(plow, q_p) /\ FLe(q_p, phigh))

\* The lower break-point has been evaluated by the central region.
C9_Witness == q_pc = "returned" /\ q_p = plow /\ q_out.regime = "central"

\* The tolerance 1e-6 of the symmetry.
Tol == RatToF(1, 1000000)

Mirrored(r1, r2) ==
    \/ r1 = "lower" /\ r2 = "upper"
    \/ r1 = "upper" /\ r2 = "lower"
    \/ r1 = "central" /\ r2 = "central"

\* 1.0 - p is computed without rounding.
ExactComplement(p) == FSub(FOne, FSub(FOne, p)) = p

\* C8 as stated: for every p in (0, 1), normal_quantile(1 - p) returns
\* -normal_quantile(p) within 1e-6, and p and 1 - p fall in mirrored
\* regimes.
C8_Symmetry ==
    q_pc = "returned" =>
        LET r == normal_quantile(FSub(FOne, q_p))
        IN /\ r.err = ""
           /\ Mirrored(q_out.regime, r.regime)
           /\ FLe(FAbs(FAdd(r.val, q_out.val)), Tol)

\* C8 amended: for every p in (0, 1) whose complement 1.0 - p is computed
\* without rounding, normal_quantile(1 - p) returns -normal_quantile(p)
\* within 1e-6; p and 1 - p fall in mirrored regimes, and the two values
\* are then exact negations, unless one of them is the upper break-point
\* 1 - 0.02425, which is central while its complement is in the lower tail.
C8_SymmetryExact ==
    q_pc = "returned" /\ ExactComplement(q_p) =>
        LET r == normal_quantile(FSub(FOne, q_p))
        IN /\ r.err = ""
           /\ FLe(FAbs(FAdd(r.val, q_out.val)), Tol)
           /\ Mirrored(q_out.regime, r.regime) =>
                 FAdd(r.val, q_out.val) = FZero
           /\ ~Mirrored(q_out.regime, r.regime) =>
                 q_p \in {phigh, FSub(FOne, phigh)}

\* A lower-tail p with an exact complement has been evaluated.
C8_Witness ==
    /\ q_pc = "returned"
    /\ q_out.regime = "lower"
    /\ ExactComplement(q_p)

\* ------------------------------------------------------------------------
\* Properties of wilson_ci
\* ------------------------------------------------------------------------

\* C1: for valid input the interval returned satisfies
\* 0 <= low <= high <= 1.
C1_Bounds ==
    w_pc = "returned" =>
        /\ FLe(FZero, w_out.low)
        /\ FLe(w_out.low, w_out.high)
        /\ FLe(w_out.high, FOne)

\* An interval has been returned for all trials succeeding.
C1_Witness == w_pc = "returned" /\ w_k = w_n /\ w_n = MaxN

\* The first argument that is invalid, in the order n, k, conf.
NInvalid == w_n <= 0

KInvalid == w_k < 0 \/ w_k > w_n

ConfInvalid == w_conf.s <= 0 \/ ~FLt(w_conf, FOne)

\* C2: wilson_ci fails with the domain error of the first invalid argument,
\* in the order n, k, conf, before normal_quantile is invoked and before any
\* part of the interval is computed; it returns a pair only when all three
\* preconditions hold.
C2_Preconditions ==
    /\ NInvalid => w_pc \in {"check_n", "raised"}
    /\ KInvalid => w_pc \in {"check_n", "check_k", "raised"}
    /\ ConfInvalid => w_pc \in {"check_n", "check_k", "check_conf", "raised"}
    /\ NInvalid \/ KInvalid \/ ConfInvalid =>
          /\ w_qcalls = 0
          /\ w_z = FZero
          /\ w_pc = "raised" =>
                w_out.err = IF NInvalid THEN "ValueError: n must be > 0"
                            ELSE IF KInvalid
                            THEN "ValueError: k must be between 0 and n"
                            ELSE "ValueError: conf must be in (0,1)"
    /\ w_pc = "returned" => ~(NInvalid \/ KInvalid \/ ConfInvalid)

\* A call with negative successes and an invalid confidence level has
\* failed on the successes.
C2_Witness ==
    /\ w_pc = "raised"
    /\ w_n > 0
    /\ w_k < 0
    /\ ConfInvalid

\* C5 as stated: with no success the interval returned has low = 0, and
\* with every trial a success it has high = 1.
C5_Boundary ==
    w_pc = "returned" =>
        /\ w_k = 0 => w_out.low = FZero
        /\ w_k = w_n => w_out.high = FOne

\* A run of wilson_ci has returned an interval for no success at a
\* confidence level of 0.5.
C5_Reached == w_pc = "returned" /\ w_k = 0 /\ w_conf = FHalf

\* ------------------------------------------------------------------------
\* Properties of main
\* ------------------------------------------------------------------------

\* Both unit flags were given.
Conflict == argv.as_percent /\ argv.as_prop

\* Some item of the argument list is malformed.
Malformed == \E i \in 1..Len(argv.results) : argv.results[i] \in BadItems

\* The confidence level lies outside (0, 1).
LevelInvalid == argv.conf.s <= 0 \/ ~FLt(argv.conf, FOne)

\* The run is over.
Exited == pc = "exited"

\* The run has written the whole table and nothing else.
Succeeded ==
    /\ Len(stdout) = Len(argv.results) + 2
    /\ stderr = <<>>

\* C3: a run of main ends with exit status 0 exactly when it succeeds, and
\* with a non-zero exit status and a message on the error stream whenever an
\* item is malformed or both unit flags are given.
C3_ExitStatus ==
    Exited =>
        /\ exit_status \in {0, 1, 2}
        /\ exit_status = 0 <=> Succeeded
        /\ exit_status # 0 => Len(stderr) = 1 /\ stderr[1] # ""
        /\ Conflict \/ Malformed => exit_status # 0

\* A run whose second item is malformed has ended with status 1.
C3_Witness ==
    /\ Exited
    /\ exit_status = 1
    /\ ~Conflict
    /\ Len(argv.results) = 2
    /\ argv.results[1] \in GoodItems
    /\ argv.results[2] \in BadItems

\* C4: wilson_ci is first called only after every item of the argument list
\* has been parsed successfully, so it is never called when an item is
\* malformed, and every triple passed to it has trials > 0 and
\* 0 <= successes <= trials.
C4_CoreGuarded ==
    /\ Len(wcalls) > 0 =>
          /\ Len(parsed) = Len(argv.results)
          /\ \A i \in 1..Len(parsed) : parsed[i].err = ""
    /\ Malformed => wcalls = <<>>
    /\ \A i \in 1..Len(wcalls) :
          /\ wcalls[i][2] > 0
          /\ 0 <= wcalls[i][1]
          /\ wcalls[i][1] <= wcalls[i][2]

\* wilson_ci has been called for the second item of a run.
C4_Witness == Len(wcalls) = 2 /\ Len(argv.results) = 2

\* C6 as stated: in every row printed, the formatted lower bound is at most
\* the formatted point estimate, which is at most the formatted upper
\* bound.
C6_Ordered ==
    \A i \in 1..Len(stdout) :
        stdout[i].kind = "row" =>
            /\ FormatCmp(stdout[i].low, stdout[i].p) <= 0
            /\ FormatCmp(stdout[i].p, stdout[i].high) <= 0

\* The item of the argument list row i of the table stands for.
ItemOf(i) == CHOOSE wf \in WellFormed : wf.text = argv.results[i]

\* C10: nothing is written to standard output until every item has been
\* parsed and every interval computed, so a run that fails writes no table
\* line, and a successful run writes one header line, one separator line and
\* one row per item, in the order of the items.
C10_AllOrNothing ==
    /\ Len(stdout) > 0 =>
          /\ Len(parsed) = Len(argv.results)
          /\ Len(rows) = Len(argv.results)
          /\ Len(wcalls) = Len(argv.results)
    /\ Conflict \/ Malformed \/ LevelInvalid => stdout = <<>>
    /\ Exited /\ exit_status # 0 => stdout = <<>>
    /\ Exited /\ exit_status = 0 =>
          /\ Len(stdout) = Len(argv.results) + 2
          /\ stdout[1].kind = "header"
          /\ stdout[2].kind = "separator"
          /\ \A i \in 1..Len(argv.results) :
                /\ argv.results[i] \in GoodItems
                /\ stdout[i + 2].kind = "row"
                /\ stdout[i + 2].k = ToStr(ItemOf(i).k)
                /\ stdout[i + 2].n = ToStr(ItemOf(i).n)

\* A run over two different items has ended with status 0.
C10_Witness ==
    /\ Exited
    /\ exit_status = 0
    /\ Len(argv.results) = 2
    /\ argv.results[1] # argv.results[2]

====
